---- MODULE Spec2Model ----
(***************************************************************************)
(* A model of tools/utils.py: the graph-normalisation and centrality       *)
(* helpers of the robustness-measures notebook.  A networkx Graph is a     *)
(* record [nodes, edges]: nodes is the sequence of node identifiers in     *)
(* insertion order (networkx iterates a graph in that order), edges is a   *)
(* set of unordered pairs {u, v}; a self-loop is the singleton {u}.  Node  *)
(* and edge attributes are left out: no function modelled here reads them  *)
(* back.                                                                   *)
(* Every function of utils.py is an operator computed as the code computes *)
(* it, and an action that applies it to the program's state.               *)
(***************************************************************************)
EXTENDS Integers, Sequences, FiniteSets, TLC

VARIABLES pc, json_graph, graph, ret, nodes_removed, returns,
          bc_list, bc_orig, betweenness_centrality_lists, top_number,
          graph_list

vars == <<pc, json_graph, graph, ret, nodes_removed, returns,
          bc_list, bc_orig, betweenness_centrality_lists, top_number,
          graph_list>>

\* ------------------------------------------------------------------ bounds

\* Largest number of nodes of an input graph (nodes are 1..n, numbered in
\* insertion order).
MaxNodes == 4

\* ----------------------------------------------------------- Python values

Range(s) == {s[i] : i \in 1..Len(s)}

\* The element of a set of one element: Only({F(x) : x \in {e}}) is F(e),
\* with e computed once.
Only(S) == CHOOSE x \in S : TRUE

\* A function returning None (also: falling off its end without a return).
None == [kind |-> "None"]
\* A function returning a graph.
ReturnGraph(g) == [kind |-> "graph", graph |-> g]
\* A function returning any other value.
Return(v) == [kind |-> "value", value |-> v]
\* A function left by an exception of class exc.
Raise(exc) == [kind |-> "raise", exc |-> exc]

\* No call has returned yet.
NoReturn == [kind |-> "pending"]

\* The value of a variable the specification at hand does not use.
Unused == <<>>

\* ------------------------------------------------------------ networkx Graph

EmptyGraph == [nodes |-> <<>>, edges |-> {}]

NodeSet(g) == Range(g.nodes)

\* nx.degree(graph, node): a self-loop counts twice.
Degree(g, v) ==
    Cardinality({e \in g.edges : v \in e /\ e # {v}})
        + (IF {v} \in g.edges THEN 2 ELSE 0)

\* graph.remove_node(v): the node and every edge at it.
RemoveNode(g, v) ==
    [nodes |-> SelectSeq(g.nodes, LAMBDA x : x # v),
     edges |-> {e \in g.edges : v \notin e}]

\* graph.remove_nodes_from(nodes)
RemoveNodesFrom(g, S) ==
    [nodes |-> SelectSeq(g.nodes, LAMBDA x : x \notin S),
     edges |-> {e \in g.edges : e \cap S = {}}]

\* graph.add_node(v): a node already there stays where it is.
AddNode(g, v) ==
    IF v \in NodeSet(g) THEN g
    ELSE [nodes |-> Append(g.nodes, v), edges |-> g.edges]

\* graph.add_edge(u, v): adds the endpoints that are missing, u first.
AddEdge(g, u, v) ==
    LET h == AddNode(AddNode(g, u), v)
    IN  [nodes |-> h.nodes, edges |-> h.edges \cup {{u, v}}]

\* nx.isolates(graph): the nodes of degree 0.
Isolates(g) == {v \in NodeSet(g) : Degree(g, v) = 0}

\* G.subgraph(c).copy(): the subgraph induced by the node set c.
Subgraph(g, c) ==
    [nodes |-> SelectSeq(g.nodes, LAMBDA x : x \in c),
     edges |-> {e \in g.edges : e \subseteq c}]

\* networkx _plain_bfs(G, source): the nodes reachable from source.
RECURSIVE Reach(_, _)
Reach(g, seen) ==
    LET next == seen \cup {w \in NodeSet(g) :
                              \E u \in seen : {u, w} \in g.edges}
    IN  IF next = seen THEN seen ELSE Reach(g, next)

PlainBfs(g, source) == Reach(g, {source})

\* nx.connected_components(G): the components in the order in which the
\* iteration over G meets their first node.
RECURSIVE ComponentsFrom(_, _, _)
ComponentsFrom(g, i, seen) ==
    IF i > Len(g.nodes) THEN <<>>
    ELSE IF g.nodes[i] \in seen THEN ComponentsFrom(g, i + 1, seen)
    ELSE LET c == PlainBfs(g, g.nodes[i])
         IN  <<c>> \o ComponentsFrom(g, i + 1, seen \cup c)

ConnectedComponents(g) == ComponentsFrom(g, 1, {})

\* nx.is_connected(G) on a graph with at least one node: the breadth-first
\* search from the first node reaches len(G) nodes.
IsConnected(g) == Cardinality(PlainBfs(g, g.nodes[1])) = Len(g.nodes)

\* max(components, key=len): the first of the largest ones.
RECURSIVE MaxByLen(_, _, _)
MaxByLen(cs, i, best) ==
    IF i > Len(cs) THEN best
    ELSE IF Cardinality(cs[i]) > Cardinality(best)
         THEN MaxByLen(cs, i + 1, cs[i])
         ELSE MaxByLen(cs, i + 1, best)

\* The input graphs: nodes 1..n in insertion order, any set of edges and
\* self-loops over them.
Pairs(n) == {{u, v} : u, v \in 1..n}

\* graph is one of the input graphs.
GraphInput ==
    \E n \in 0..MaxNodes : \E E \in SUBSET Pairs(n) :
        graph = [nodes |-> [i \in 1..n |-> i], edges |-> E]

\* ------------------------------------------------- Connectivity Reducer

\* clean_isolated_nodes(graph): in place.
CleanIsolatedNodesOf(g) == RemoveNodesFrom(g, Isolates(g))

\* fix_connectivity(graph), with a networkx that has
\* connected_component_subgraphs (before 2.4): nx.is_connected raises
\* NetworkXPointlessConcept on the null graph; a connected graph falls off
\* the end of the function, which returns None.
FixConnectivityOf(g) ==
    IF Len(g.nodes) = 0 THEN Raise("NetworkXPointlessConcept")
    ELSE IF ~IsConnected(g)
         THEN LET cs == ConnectedComponents(g)
              IN  ReturnGraph(Subgraph(g, MaxByLen(cs, 2, cs[1])))
         ELSE None

InitReduce ==
    /\ pc = "loaded"
    /\ GraphInput
    /\ ret = NoReturn
    /\ json_graph = Unused /\ nodes_removed = 0 /\ returns = <<>>
    /\ bc_list = Unused /\ bc_orig = Unused
    /\ betweenness_centrality_lists = Unused /\ top_number = 0
    /\ graph_list = Unused

\* load_graph_list, line 20.
CleanIsolatedNodes ==
    /\ pc = "loaded"
    /\ graph' = CleanIsolatedNodesOf(graph)
    /\ pc' = "cleaned"
    /\ UNCHANGED <<json_graph, ret, nodes_removed, returns, bc_list, bc_orig,
                   betweenness_centrality_lists, top_number, graph_list>>

\* load_graph_list, line 21 (after line 20), or a call of fix_connectivity
\* on a graph as it was loaded.
FixConnectivity ==
    /\ pc \in {"loaded", "cleaned"}
    /\ ret' = FixConnectivityOf(graph)
    /\ pc' = IF pc = "cleaned" THEN "reduced" ELSE "fixed"
    /\ UNCHANGED <<json_graph, graph, nodes_removed, returns, bc_list, bc_orig,
                   betweenness_centrality_lists, top_number, graph_list>>

NextReduce == CleanIsolatedNodes \/ FixConnectivity

SpecReduce == InitReduce /\ [][NextReduce]_vars

\* C1: after clean_isolated_nodes and then fix_connectivity, the resulting
\* graph is empty or connected, and every node of it has degree >= 1.
C1_ReducedIsConnected ==
    pc = "reduced" =>
        /\ ret.kind = "graph"
        /\ Len(ret.graph.nodes) = 0 \/ IsConnected(ret.graph)
        /\ \A v \in NodeSet(ret.graph) : Degree(ret.graph, v) >= 1

\* C2: fix_connectivity of a graph that is already connected returns that
\* graph, with the same nodes and the same edges.
C2_ConnectedUnchanged ==
    (pc \in {"fixed", "reduced"} /\ Len(graph.nodes) > 0 /\ IsConnected(graph)) =>
        /\ ret.kind = "graph"
        /\ NodeSet(ret.graph) = NodeSet(graph)
        /\ ret.graph.edges = graph.edges

\* ------------------------------------------------------ Satellite Pruner

\* Calls of removes_satellites made one after the other on the same graph.
MaxCalls == 2

\* Lines 62-66: one scan of list(graph.nodes), the node list as it is when
\* the scan starts; nx.degree reads the graph as it is when the node is
\* visited, after the removals made earlier in the same scan.
RECURSIVE ScanFrom(_, _, _, _)
ScanFrom(order, i, g, removed) ==
    IF i > Len(order) THEN [graph |-> g, nodes_removed |-> removed]
    ELSE IF Degree(g, order[i]) = 1
         THEN ScanFrom(order, i + 1, RemoveNode(g, order[i]), removed + 1)
         ELSE ScanFrom(order, i + 1, g, removed)

SatelliteScan(g) == ScanFrom(g.nodes, 1, g, 0)

\* A pruner that returns after its first scan.
RecurseNever(removed) == FALSE

\* Lines 67-70: the call recurses unless its scan removed nothing.
Recurse(removed) == removed # 0

InitPrune ==
    /\ pc = "call"
    /\ GraphInput
    /\ nodes_removed = 0
    /\ returns = <<>>
    /\ ret = NoReturn
    /\ json_graph = Unused /\ bc_list = Unused /\ bc_orig = Unused
    /\ betweenness_centrality_lists = Unused /\ top_number = 0
    /\ graph_list = Unused

\* One invocation of removes_satellites: a call from outside (pc = "call")
\* or the recursive call of line 70 (pc = "recursion").  nodes_removed is the
\* sum of the counts held by the invocations waiting on the stack; when the
\* innermost one returns 0 they all return, and the outermost returns the sum.
RemovesSatellites ==
    /\ pc \in {"call", "recursion"}
    /\ LET scan == SatelliteScan(graph)
       IN  /\ graph' = scan.graph
           /\ IF Recurse(scan.nodes_removed)
              THEN /\ nodes_removed' = nodes_removed + scan.nodes_removed
                   /\ pc' = "recursion"
                   /\ returns' = returns
              ELSE /\ returns' = Append(returns, nodes_removed)
                   /\ nodes_removed' = 0
                   /\ pc' = IF Len(returns) + 1 < MaxCalls THEN "call" ELSE "done"
    /\ UNCHANGED <<json_graph, ret, bc_list, bc_orig,
                   betweenness_centrality_lists, top_number, graph_list>>

NextPrune == RemovesSatellites

SpecPrune == InitPrune /\ [][NextPrune]_vars

Satellites(g) == {v \in NodeSet(g) : Degree(g, v) = 1}

\* C3: when removes_satellites returns, no node of degree 1 remains; a call
\* made after an earlier one has returned removes nothing, returns 0 and
\* leaves the graph as it was.
PruneIdempotentStep ==
    /\ returns' # returns => Satellites(graph') = {}
    /\ (pc = "call" /\ Len(returns) >= 1) =>
          /\ graph' = graph
          /\ Len(returns') = Len(returns) + 1
          /\ returns'[Len(returns')] = 0

C3_PruneIdempotent == [][PruneIdempotentStep]_vars

C3_Witness ==
    /\ Len(returns) = 2
    /\ returns[1] > 0
    /\ returns[2] = 0
    /\ Len(graph.nodes) > 0

\* C10: the nodes a scan removes are exactly the nodes that had degree 1
\* when the scan started.
ScanRemovesStartSatellites ==
    pc \in {"call", "recursion"} =>
        NodeSet(graph) \ NodeSet(graph') = Satellites(graph)

C10_ScanRemovesStartSatellites == [][ScanRemovesStartSatellites]_vars

\* ---------------------------------------------------- Centrality Analyzer

RECURSIVE SumSeq(_, _)
SumSeq(s, i) == IF i > Len(s) THEN 0 ELSE s[i] + SumSeq(s, i + 1)

\* sum(values)
Sum(s) == SumSeq(s, 1)

RECURSIVE SumOver(_, _)
SumOver(f, S) ==
    IF S = {} THEN 0
    ELSE LET x == CHOOSE y \in S : TRUE IN f[x] + SumOver(f, S \ {x})

RECURSIVE ProductOver(_, _)
ProductOver(f, S) ==
    IF S = {} THEN 1
    ELSE LET x == CHOOSE y \in S : TRUE IN f[x] * ProductOver(f, S \ {x})

\* The breadth-first levels from s: levels[d + 1] holds the nodes at
\* distance d.
RECURSIVE LevelsFrom(_, _, _)
LevelsFrom(g, levels, seen) ==
    LET last == levels[Len(levels)]
        next == {w \in NodeSet(g) \ seen : \E u \in last : {u, w} \in g.edges}
    IN  IF next = {} THEN levels
        ELSE LevelsFrom(g, Append(levels, next), seen \cup next)

Levels(g, s) == LevelsFrom(g, <<{s}>>, {s})

\* The distances from the source of the levels; -1 for a node not reached.
DistFrom(g, levels) ==
    [v \in NodeSet(g) |->
        IF \E i \in 1..Len(levels) : v \in levels[i]
        THEN (CHOOSE i \in 1..Len(levels) : v \in levels[i]) - 1
        ELSE -1]

\* The numbers of shortest paths from the source of the levels to the nodes
\* of levels 1..d, given those to the nodes of levels 1..d-1.
RECURSIVE PathsFrom(_, _, _, _)
PathsFrom(g, levels, d, paths) ==
    IF d > Len(levels) THEN paths
    ELSE LET here == [v \in levels[d] |->
                         LET preds == {u \in levels[d - 1] : {u, v} \in g.edges}
                         IN  SumOver(paths, preds)]
         IN  PathsFrom(g, levels, d + 1, here @@ paths)

\* The number of shortest paths from the source of the levels to every
\* node; 0 for a node not reached.
PathsTo(g, levels) ==
    LET reached == PathsFrom(g, levels, 2, [v \in levels[1] |-> 1])
    IN  [v \in NodeSet(g) |-> IF v \in DOMAIN reached THEN reached[v] ELSE 0]

\* nx.betweenness_centrality(graph), normalized, without endpoints: for each
\* node v the sum over the ordered pairs (s, t), s # v # t, of
\* sigma(s, t | v) / sigma(s, t), times 1 / ((n - 1)(n - 2)) when n > 2;
\* sigma(s, t) is the number of shortest paths from s to t and
\* sigma(s, t | v) the number of those through v.  The scores of one graph
\* are rationals with a common denominator; the model holds each as the
\* integer number of units of 1 / (n * unit * (n - 1)(n - 2))  (of
\* 1 / (n * unit) when n <= 2), where unit is a common multiple of every
\* sigma(s, t), so that the scores, their sum and their mean are integers
\* and every comparison of the code is the comparison of the integers.  The
\* mapping lists the nodes in the graph's order.
BetweennessScores(g, dist, sigma, joined, unit) ==
    LET n == Len(g.nodes)
        SigmaThrough(s, t, v) ==
            IF dist[s][v] >= 0 /\ dist[v][t] >= 0
                  /\ dist[s][v] + dist[v][t] = dist[s][t]
            THEN sigma[s][v] * sigma[v][t]
            ELSE 0
        Score(v) ==
            LET through == {p \in joined : p[1] # v /\ p[2] # v}
            IN  n * SumOver([p \in through |->
                       SigmaThrough(p[1], p[2], v)
                           * (unit \div sigma[p[1]][p[2]])], through)
    IN  [i \in 1..n |-> <<g.nodes[i], Score(g.nodes[i])>>]

\* The scores, given the distances and the path counts.
BetweennessFromPaths(g, dist, sigma) ==
    LET N == NodeSet(g)
    IN  Only({Only({BetweennessScores(g, dist, sigma, joined, unit) :
                       unit \in {ProductOver([p \in joined |-> sigma[p[1]][p[2]]],
                                             joined)}}) :
                 joined \in {{p \in N \X N :
                                 p[1] # p[2] /\ sigma[p[1]][p[2]] > 0}}})

BetweennessCentrality(g) ==
    LET N == NodeSet(g)
    IN  Only({Only({BetweennessFromPaths(g, dist, sigma) :
                       dist \in {[s \in N |-> DistFrom(g, levels[s])]},
                       sigma \in {[s \in N |-> PathsTo(g, levels[s])]}}) :
                 levels \in {[s \in N |-> Levels(g, s)]}})

\* sorted(items, key=lambda x: x[1], reverse=reverse): a stable sort, also
\* with reverse=True (items with equal scores keep their order).
InsertSorted(sorted, x, reverse) ==
    LET Stays(e) == IF reverse THEN e[2] >= x[2] ELSE e[2] <= x[2]
        k == Cardinality({i \in 1..Len(sorted) : Stays(sorted[i])})
    IN  SubSeq(sorted, 1, k) \o <<x>> \o SubSeq(sorted, k + 1, Len(sorted))

RECURSIVE SortedFrom(_, _, _, _)
SortedFrom(items, i, acc, reverse) ==
    IF i > Len(items) THEN acc
    ELSE SortedFrom(items, i + 1, InsertSorted(acc, items[i], reverse), reverse)

Sorted(items, reverse) == SortedFrom(items, 1, <<>>, reverse)

\* A threshold of twice the mean.
ThresholdTwice(betweenness_mean) == 2 * betweenness_mean

\* Line 118.
Threshold(betweenness_mean) == 3 * betweenness_mean

\* Lines 119-121.
RECURSIVE RemoveBelow(_, _, _, _)
RemoveBelow(items, i, threshold, subgraph) ==
    IF i > Len(items) THEN subgraph
    ELSE IF items[i][2] < threshold
         THEN RemoveBelow(items, i + 1, threshold, RemoveNode(subgraph, items[i][1]))
         ELSE RemoveBelow(items, i + 1, threshold, subgraph)

\* Lines 114-122, given the mapping of line 113.  The division of line 116
\* raises ZeroDivisionError when the graph has no node.
ImportantNodesGiven(g, betweenness_centrality, betweenness_sorted) ==
    LET betweenness_values ==
            [i \in 1..Len(betweenness_sorted) |-> betweenness_sorted[i][2]]
    IN  IF Len(betweenness_values) = 0 THEN Raise("ZeroDivisionError")
        ELSE LET betweenness_mean ==
                     Sum(betweenness_values) \div Len(betweenness_values)
                 threshold == Threshold(betweenness_mean)
             IN  [kind |-> "value",
                  subgraph |-> RemoveBelow(betweenness_sorted, 1, threshold, g),
                  betweenness_centrality |-> betweenness_centrality]

\* important_nodes(graph).
ImportantNodesOf(g) ==
    Only({Only({ImportantNodesGiven(g, bc, sorted) :
                   sorted \in {Sorted(bc, FALSE)}}) :
             bc \in {BetweennessCentrality(g)}})

InitImportant ==
    /\ pc = "call"
    /\ GraphInput
    /\ ret = NoReturn
    /\ json_graph = Unused /\ nodes_removed = 0 /\ returns = <<>>
    /\ bc_list = Unused /\ bc_orig = Unused
    /\ betweenness_centrality_lists = Unused /\ top_number = 0
    /\ graph_list = Unused

ImportantNodes ==
    /\ pc = "call"
    /\ ret' = ImportantNodesOf(graph)
    /\ pc' = "done"
    /\ UNCHANGED <<json_graph, graph, nodes_removed, returns, bc_list, bc_orig,
                   betweenness_centrality_lists, top_number, graph_list>>

NextImportant == ImportantNodes

SpecImportant == InitImportant /\ [][NextImportant]_vars

\* The score of node v in a centrality mapping.
ScoreOf(bc, v) == bc[CHOOSE i \in 1..Len(bc) : bc[i][1] = v][2]

ScoreSum(bc) == Sum([i \in 1..Len(bc) |-> bc[i][2]])

\* C4: on a graph with at least one node, important_nodes returns the
\* subgraph induced by the nodes whose centrality is >= 3 x the mean of all
\* the centrality values; every node it removed is strictly below that.
\* (k >= 3 * sum / n is stated as n * k >= 3 * sum.)
C4_ThresholdCorrect ==
    (pc = "done" /\ Len(graph.nodes) > 0) =>
        /\ ret.kind = "value"
        /\ LET bc == ret.betweenness_centrality
               n == Len(bc)
               kept == NodeSet(ret.subgraph)
           IN  /\ n = Len(graph.nodes)
               /\ kept \subseteq NodeSet(graph)
               /\ \A v \in kept : n * ScoreOf(bc, v) >= 3 * ScoreSum(bc)
               /\ \A v \in NodeSet(graph) \ kept :
                      n * ScoreOf(bc, v) < 3 * ScoreSum(bc)
               /\ ret.subgraph = Subgraph(graph, kept)

\* A node is kept with a score equal to the threshold, another is removed.
C4_Witness ==
    /\ pc = "done"
    /\ ret.kind = "value"
    /\ LET bc == ret.betweenness_centrality
           n == Len(bc)
       IN  /\ \E v \in NodeSet(ret.subgraph) :
                  /\ ScoreOf(bc, v) > 0
                  /\ n * ScoreOf(bc, v) = 3 * ScoreSum(bc)
           /\ NodeSet(graph) \ NodeSet(ret.subgraph) # {}

\* C5: important_nodes on a graph without nodes fails with an "empty graph"
\* error of its own, not with the arithmetic fault of a division by zero.
C5_EmptyGraphError ==
    (pc = "done" /\ Len(graph.nodes) = 0) =>
        /\ ret.kind = "raise"
        /\ ret.exc = "EmptyGraph"

\* ------------------------------------------------------ Temporal Tracker

\* A centrality mapping (a Python dict) is the sequence of its items
\* <<node, score>> in insertion order, each node at most once.
Keys(bc) == {bc[i][1] : i \in 1..Len(bc)}

\* The node identifiers and the scores of the input mappings.
NodeIds == <<"A", "B", "C">>

Scores == {0, 1}

\* The input mappings: the nodes of a subset of NodeIds, in the order of
\* NodeIds, each with a score (equal scores included, for the sort's ties).
Mappings ==
    UNION {{[i \in 1..Len(ks) |-> <<ks[i], sc[i]>>] :
               sc \in [1..Len(ks) -> Scores]} :
           ks \in {SelectSeq(NodeIds, LAMBDA k : k \in S) :
                      S \in SUBSET Range(NodeIds)}}

\* Largest number of mappings (snapshots) in a batch.
MaxSnapshots == 2

Batches == UNION {[1..n -> Mappings] : n \in 0..MaxSnapshots}

\* A loop that leaves keys_a as the keys of the first mapping.
KeepFirst(keys_a, keys_b) == keys_a

\* Line 82.
Intersect(keys_a, keys_b) == keys_a \cap keys_b

\* Lines 79-82: the keys common to all the mappings.

RECURSIVE CommonKeys(_, _, _)
CommonKeys(batch, i, keys_a) ==
    IF i > Len(batch) THEN keys_a
    ELSE CommonKeys(batch, i + 1, Intersect(keys_a, Keys(batch[i])))

\* Lines 84-88: del bc_list[i][key] for every key outside keys_a.
Filtered(batch, keys_a) ==
    [i \in 1..Len(batch) |-> SelectSeq(batch[i], LAMBDA item : item[1] \in keys_a)]

InitIntersection ==
    /\ pc = "call"
    /\ bc_list \in Batches
    /\ bc_orig = bc_list
    /\ ret = NoReturn
    /\ json_graph = Unused /\ graph = EmptyGraph
    /\ nodes_removed = 0 /\ returns = <<>>
    /\ betweenness_centrality_lists = Unused /\ top_number = 0
    /\ graph_list = Unused

\* betweenness_centrality_intersection(bc_list): bc_list[0] raises IndexError
\* on an empty batch; otherwise the mappings are filtered in place and the
\* function returns None.  bc_orig keeps the batch as it was passed.
BetweennessCentralityIntersection ==
    /\ pc = "call"
    /\ IF Len(bc_list) = 0
       THEN /\ ret' = Raise("IndexError")
            /\ bc_list' = bc_list
       ELSE /\ bc_list' = Filtered(bc_list, CommonKeys(bc_list, 1, Keys(bc_list[1])))
            /\ ret' = None
    /\ pc' = "done"
    /\ UNCHANGED <<json_graph, graph, nodes_removed, returns, bc_orig,
                   betweenness_centrality_lists, top_number, graph_list>>

NextIntersection == BetweennessCentralityIntersection

SpecIntersection == InitIntersection /\ [][NextIntersection]_vars

\* C6: after betweenness_centrality_intersection on a batch of at least one
\* mapping, the keys of every mapping are exactly the keys common to all the
\* original mappings, and every key kept has its original score.
C6_IntersectionExact ==
    (pc = "done" /\ Len(bc_orig) > 0) =>
        /\ ret = None
        /\ Len(bc_list) = Len(bc_orig)
        /\ \A i \in 1..Len(bc_list) :
              /\ \A k \in Range(NodeIds) :
                    k \in Keys(bc_list[i]) <=>
                        \A j \in 1..Len(bc_orig) : k \in Keys(bc_orig[j])
              /\ \A m \in 1..Len(bc_list[i]) :
                    \E o \in 1..Len(bc_orig[i]) : bc_orig[i][o] = bc_list[i][m]
              /\ Cardinality(Keys(bc_list[i])) = Len(bc_list[i])

\* Two mappings that share a key and each hold a key the other lacks.
C6_Witness ==
    /\ pc = "done"
    /\ Len(bc_orig) = 2
    /\ Keys(bc_orig[1]) \ Keys(bc_orig[2]) # {}
    /\ Keys(bc_orig[2]) \ Keys(bc_orig[1]) # {}
    /\ Keys(bc_list[1]) # {}
    /\ bc_list[1] # bc_orig[1]

\* Largest top_number.
MaxTop == 2

\* Lines 41-43: the first top_number items of a sorted snapshot appended to
\* the presence lists; index is the snapshot's index, counted from 0.
RECURSIVE Record(_, _, _, _)
Record(presence_count, top_list, j, index) ==
    IF j > Len(top_list) THEN presence_count
    ELSE LET node == top_list[j][1]
             before == IF node \in DOMAIN presence_count
                       THEN presence_count[node] ELSE <<>>
         IN  Record((node :> Append(before, index)) @@ presence_count,
                    top_list, j + 1, index)

\* A sort without reverse=True.
SortAscending(snapshot) == Sorted(snapshot, FALSE)

\* Line 40: sorted(..., reverse=True).
SortSnapshot(snapshot) == Sorted(snapshot, TRUE)

\* Lines 39-44.  sorted_snapshots[i][j] raises IndexError when the snapshot
\* has fewer than top_number items.
RECURSIVE PresenceFrom(_, _, _, _)
PresenceFrom(lists, top, i, presence_count) ==
    IF i > Len(lists) THEN Return(presence_count)
    ELSE IF top > Len(lists[i]) THEN Raise("IndexError")
    ELSE PresenceFrom(lists, top, i + 1,
             Record(presence_count, SubSeq(SortSnapshot(lists[i]), 1, top), 1, i - 1))

\* build_presence_dictionary(betweenness_centrality_lists, top_number)
BuildPresenceDictionaryOf(lists, top) == PresenceFrom(lists, top, 1, <<>>)

InitPresence ==
    /\ pc = "call"
    /\ betweenness_centrality_lists \in Batches
    /\ top_number \in 0..MaxTop
    /\ ret = NoReturn
    /\ json_graph = Unused /\ graph = EmptyGraph
    /\ nodes_removed = 0 /\ returns = <<>>
    /\ bc_list = Unused /\ bc_orig = Unused
    /\ graph_list = Unused

BuildPresenceDictionary ==
    /\ pc = "call"
    /\ ret' = BuildPresenceDictionaryOf(betweenness_centrality_lists, top_number)
    /\ pc' = "done"
    /\ UNCHANGED <<json_graph, graph, nodes_removed, returns, bc_list, bc_orig,
                   betweenness_centrality_lists, top_number, graph_list>>

NextPresence == BuildPresenceDictionary

SpecPresence == InitPresence /\ [][NextPresence]_vars

\* Node v is among the first top entries of the snapshot sorted by score
\* descending, equal scores in the snapshot's own order: fewer than top
\* items come before it.
InTop(snapshot, v, top) ==
    \E m \in 1..Len(snapshot) :
        /\ snapshot[m][1] = v
        /\ Cardinality({o \in 1..Len(snapshot) :
                \/ snapshot[o][2] > snapshot[m][2]
                \/ snapshot[o][2] = snapshot[m][2] /\ o < m}) < top

\* C7: when every snapshot holds at least top_number nodes, the presence
\* mapping is returned, and for every node of it the presence list is no
\* longer than the number of snapshots and each index in it is the index of
\* a snapshot that has the node among its top_number first by score.
C7_PresenceBound ==
    (/\ pc = "done"
     /\ \A i \in 1..Len(betweenness_centrality_lists) :
            Len(betweenness_centrality_lists[i]) >= top_number) =>
        /\ ret.kind = "value"
        /\ \A v \in DOMAIN ret.value :
              /\ Len(ret.value[v]) <= Len(betweenness_centrality_lists)
              /\ \A j \in 1..Len(ret.value[v]) :
                    /\ ret.value[v][j] \in 0..(Len(betweenness_centrality_lists) - 1)
                    /\ InTop(betweenness_centrality_lists[ret.value[v][j] + 1],
                             v, top_number)

\* A node in the top of both snapshots, and a snapshot where a node with
\* the same score as a top node is left out.
C7_Witness ==
    /\ pc = "done"
    /\ ret.kind = "value"
    /\ top_number = 1
    /\ Len(betweenness_centrality_lists) = 2
    /\ \E v \in DOMAIN ret.value : ret.value[v] = <<0, 1>>
    /\ \E i \in 1..2 :
          /\ Len(betweenness_centrality_lists[i]) >= 2
          /\ betweenness_centrality_lists[i][1][2] = betweenness_centrality_lists[i][2][2]

\* -------------------------------------------------------- Core Extractor

\* Largest number of graphs in a sequence, and of nodes of one of them.
MaxGraphs == 3

MaxCoreNodes == 3

\* The input graphs: a snapshot as load_graph_list leaves it (every two of
\* its nodes joined), one for each set of nodes.
CoreGraphs ==
    {[nodes |-> SelectSeq([i \in 1..MaxCoreNodes |-> i], LAMBDA v : v \in S),
      edges |-> {{u, v} : u, v \in S} \ {{v} : v \in S}] :
        S \in SUBSET (1..MaxCoreNodes)}

\* A union in place of the intersection.
UniteNodes(g, result) == NodeSet(g) \cup result

\* Line 193.
IntersectNodes(g, result) == NodeSet(g) \cap result

\* Lines 192-193.
RECURSIVE CoreFrom(_, _, _)
CoreFrom(list, i, result) ==
    IF i > Len(list) THEN result
    ELSE CoreFrom(list, i + 1, IntersectNodes(list[i], result))

\* core_component(graph_list): the empty list [] for an empty sequence,
\* otherwise a set.
CoreComponentOf(list) ==
    IF Len(list) = 0 THEN Return(<<>>)
    ELSE Return(CoreFrom(list, 1, NodeSet(list[1])))

InitCore ==
    /\ pc = "call"
    /\ graph_list \in UNION {[1..n -> CoreGraphs] : n \in 0..MaxGraphs}
    /\ ret = NoReturn
    /\ json_graph = Unused /\ graph = EmptyGraph
    /\ nodes_removed = 0 /\ returns = <<>>
    /\ bc_list = Unused /\ bc_orig = Unused
    /\ betweenness_centrality_lists = Unused /\ top_number = 0

CoreComponent ==
    /\ pc = "call"
    /\ ret' = CoreComponentOf(graph_list)
    /\ pc' = "done"
    /\ UNCHANGED <<json_graph, graph, nodes_removed, returns, bc_list, bc_orig,
                   betweenness_centrality_lists, top_number, graph_list>>

NextCore == CoreComponent

SpecCore == InitCore /\ [][NextCore]_vars

\* C8: for a sequence of at least one graph, core_component returns a subset
\* of the node set of every graph of the sequence; for a sequence of one
\* graph it returns that graph's node set.
C8_CoreSubset ==
    (pc = "done" /\ Len(graph_list) > 0) =>
        /\ ret.kind = "value"
        /\ \A i \in 1..Len(graph_list) : ret.value \subseteq NodeSet(graph_list[i])
        /\ Len(graph_list) = 1 => ret.value = NodeSet(graph_list[1])

\* Three graphs with different node sets and a node common to them.
C8_Witness ==
    /\ pc = "done"
    /\ Len(graph_list) = 3
    /\ NodeSet(graph_list[1]) # NodeSet(graph_list[2])
    /\ NodeSet(graph_list[2]) # NodeSet(graph_list[3])
    /\ NodeSet(graph_list[2]) \ NodeSet(graph_list[1]) # {}
    /\ ret.value # {}
    /\ ret.value # NodeSet(graph_list[1])

\* ---------------------------------------------------------- Graph Builder

\* The public keys of the input records.
PubKeys == {"A", "B"}

\* A policy sub-record of an edge entry: absent (JSON null), with fields
\* that int() converts, or with a field that int() refuses.
Policies == {"null", "numeric", "non-numeric"}

\* Largest number of entries of json_graph['edges'].
MaxEdgeEntries == 2

EdgeEntries ==
    [node1_pub : PubKeys, node2_pub : PubKeys,
     node1_policy : Policies, node2_policy : Policies]

\* The input records: nodes lists the public keys of the nodes, edges the
\* edge entries.  capacity and last_update are taken to be numeric strings.
JsonGraphs ==
    [nodes : UNION {[1..n -> PubKeys] : n \in 0..Cardinality(PubKeys)},
     edges : UNION {[1..n -> EdgeEntries] : n \in 0..MaxEdgeEntries}]

\* Lines 155-156.
RECURSIVE AddNodes(_, _, _)
AddNodes(nodes, i, g) ==
    IF i > Len(nodes) THEN g ELSE AddNodes(nodes, i + 1, AddNode(g, nodes[i]))

\* A test with `or` in place of `and`.
EitherPolicy(edge) ==
    edge.node1_policy # "null" \/ edge.node2_policy # "null"

\* Lines 162-163.
BothPolicies(edge) ==
    edge.node1_policy # "null" /\ edge.node2_policy # "null"

\* Lines 161-179: int() of a non-numeric field raises ValueError.
RECURSIVE AddEdges(_, _, _)
AddEdges(edges, i, g) ==
    IF i > Len(edges) THEN ReturnGraph(g)
    ELSE IF BothPolicies(edges[i])
         THEN IF "non-numeric" \in {edges[i].node1_policy, edges[i].node2_policy}
              THEN Raise("ValueError")
              ELSE AddEdges(edges, i + 1,
                            AddEdge(g, edges[i].node1_pub, edges[i].node2_pub))
         ELSE AddEdges(edges, i + 1, g)

\* parse_graph_from_json(json_graph)
ParseGraphFromJsonOf(json) ==
    AddEdges(json.edges, 1, AddNodes(json.nodes, 1, EmptyGraph))

InitParse ==
    /\ pc = "call"
    /\ json_graph \in JsonGraphs
    /\ graph = EmptyGraph
    /\ ret = NoReturn
    /\ nodes_removed = 0 /\ returns = <<>>
    /\ bc_list = Unused /\ bc_orig = Unused
    /\ betweenness_centrality_lists = Unused /\ top_number = 0
    /\ graph_list = Unused

\* load_graph_list, line 19.
ParseGraphFromJson ==
    /\ pc = "call"
    /\ ret' = ParseGraphFromJsonOf(json_graph)
    /\ graph' = IF ret'.kind = "graph" THEN ret'.graph ELSE graph
    /\ pc' = "done"
    /\ UNCHANGED <<json_graph, nodes_removed, returns, bc_list, bc_orig,
                   betweenness_centrality_lists, top_number, graph_list>>

NextParse == ParseGraphFromJson

SpecParse == InitParse /\ [][NextParse]_vars

\* Entry e of the record is an edge entry for the pair u, v with both
\* policies present.
ListsEdge(e, u, v) ==
    /\ {e.node1_pub, e.node2_pub} = {u, v}
    /\ e.node1_policy # "null"
    /\ e.node2_policy # "null"

\* C9: the graph parse_graph_from_json returns holds every node the record
\* lists, and an edge between two nodes if and only if the record lists an
\* edge entry for the pair with both policies non-null; an entry that lacks
\* a policy adds no edge and raises no error (the call fails only on an
\* entry that has both).
C9_EdgeIffBothPolicies ==
    pc = "done" =>
        /\ ret.kind = "graph" =>
              /\ Range(json_graph.nodes) \subseteq NodeSet(ret.graph)
              /\ \A u, v \in PubKeys :
                    {u, v} \in ret.graph.edges <=>
                        \E i \in 1..Len(json_graph.edges) :
                            ListsEdge(json_graph.edges[i], u, v)
              /\ \A e \in ret.graph.edges : e \subseteq PubKeys
        /\ ret.kind # "graph" =>
              \E i \in 1..Len(json_graph.edges) :
                  /\ json_graph.edges[i].node1_policy # "null"
                  /\ json_graph.edges[i].node2_policy # "null"

\* The same pair listed twice, once with both policies and once with a
\* policy missing, the present one non-numeric; a listed node without edge.
C9_Witness ==
    /\ pc = "done"
    /\ ret.kind = "graph"
    /\ Len(json_graph.edges) = 2
    /\ json_graph.edges[1].node1_policy = "null"
    /\ json_graph.edges[1].node2_policy = "non-numeric"
    /\ json_graph.edges[1].node1_pub = "B"
    /\ json_graph.edges[1].node2_pub = "B"
    /\ ListsEdge(json_graph.edges[2], "A", "A")
    /\ json_graph.nodes = <<"A", "B">>
    /\ ret.graph.edges = {{"A"}}

====
